---- MODULE Spec2Model ----
(***************************************************************************)
(* A model of libnar: the NAR (Nix Archive) encoder (src/ser.rs), the      *)
(* streaming decoder and the unpacker (src/de.rs).                         *)
(*                                                                         *)
(* Bytes are naturals in 0..255, byte strings are sequences of bytes.      *)
(* Paths handed to the operating system are byte strings with "/" (47) as  *)
(* separator; the file system is a function from resolved absolute paths   *)
(* (sequences of names) to nodes.                                          *)
(***************************************************************************)
EXTENDS Naturals, Sequences, FiniteSets, TLC

VARIABLES
    input,      \* history: the input the run was started with
    fs,         \* the file system: resolved absolute path -> node
    fs0,        \* history: the file system before the first operation
    writer,     \* the encoder's output buffer (Vec<u8>)
    first,      \* history: the output of the first to_vec call
    stream,     \* the bytes behind the Archive's reader
    position,   \* ArchiveInner.position
    params,     \* Archive.canonicalize_mtime / remove_xattrs
    alloc_ok,   \* environment: whether a huge zeroed allocation is granted
    gen,        \* the suspended generator behind the entries iterator
    pc,         \* which call is in progress
    dst,        \* the destination the caller unpacks into
    yielded,    \* history: the items the iterator has returned so far
    calls,      \* history: calls of entries()/unpack(), and how many gave an iterator
    last        \* history: the last operation, its result and its path

vars == <<input, fs, fs0, writer, first, stream, position, params, alloc_ok, gen,
          pc, dst, yielded, calls, last>>

(***************************************************************************)
(* Constants of the crate (src/lib.rs) and the tag vocabulary (src/de.rs). *)
(***************************************************************************)
PAD_LEN == 8

NIX_VERSION_MAGIC == <<110, 105, 120, 45, 97, 114, 99, 104, 105, 118, 101, 45, 49>>

TagEmpty      == << >>
TagOpen       == <<40>>
TagClose      == <<41>>
TagType       == <<116, 121, 112, 101>>
TagRegular    == <<114, 101, 103, 117, 108, 97, 114>>
TagSymlink    == <<115, 121, 109, 108, 105, 110, 107>>
TagDirectory  == <<100, 105, 114, 101, 99, 116, 111, 114, 121>>
TagEntry      == <<101, 110, 116, 114, 121>>
TagContents   == <<99, 111, 110, 116, 101, 110, 116, 115>>
TagExecutable == <<101, 120, 101, 99, 117, 116, 97, 98, 108, 101>>
TagTarget     == <<116, 97, 114, 103, 101, 116>>
TagName       == <<110, 97, 109, 101>>
TagNode       == <<110, 111, 100, 101>>

(***************************************************************************)
(* Byte-string helpers.                                                    *)
(***************************************************************************)
Zeros(n) == [i \in 1..n |-> 0]

Repeat(b, n) == [i \in 1..n |-> b]

Min(a, b) == IF a <= b THEN a ELSE b

RECURSIVE Pow256(_)
Pow256(k) == IF k = 0 THEN 1 ELSE 256 * Pow256(k - 1)

\* u64::to_le_bytes for the lengths a model run can produce (below 2^24).
to_le_bytes(len) ==
    [i \in 1..PAD_LEN |-> IF i <= 3 THEN (len \div Pow256(i - 1)) % 256 ELSE 0]

(***************************************************************************)
(* ser.rs: write_padded.  The value is what the call appends to the        *)
(* writer.                                                                 *)
(***************************************************************************)
\* write_padded with the padding written whatever the remainder is.
write_padded_pad_always(b) ==
    to_le_bytes(Len(b)) \o b \o Zeros(PAD_LEN - (Len(b) % PAD_LEN))

write_padded(b) ==
    LET remainder == Len(b) % PAD_LEN
    IN  to_le_bytes(Len(b)) \o b \o
        (IF remainder > 0 THEN Zeros(PAD_LEN - remainder) ELSE << >>)

(***************************************************************************)
(* UTF-8, as std's Utf8Chunks scans it: the chunk starting at index i of b *)
(* is a valid scalar of 1..4 bytes, or an invalid sequence of 1..3 bytes   *)
(* (the longest prefix that could still have started a scalar).            *)
(***************************************************************************)
IsCont(b, i) == i <= Len(b) /\ b[i] >= 128 /\ b[i] <= 191

InRange(b, i, lo, hi) == i <= Len(b) /\ b[i] >= lo /\ b[i] <= hi

Utf8Chunk(b, i) ==
    LET c == b[i]
        second(lo, hi, width) ==
            IF ~InRange(b, i + 1, lo, hi) THEN [valid |-> FALSE, len |-> 1]
            ELSE IF width = 2 THEN [valid |-> TRUE, len |-> 2]
            ELSE IF ~IsCont(b, i + 2) THEN [valid |-> FALSE, len |-> 2]
            ELSE IF width = 3 THEN [valid |-> TRUE, len |-> 3]
            ELSE IF ~IsCont(b, i + 3) THEN [valid |-> FALSE, len |-> 3]
            ELSE [valid |-> TRUE, len |-> 4]
    IN  IF c < 128 THEN [valid |-> TRUE, len |-> 1]
        ELSE IF c >= 194 /\ c <= 223 THEN second(128, 191, 2)
        ELSE IF c = 224 THEN second(160, 191, 3)
        ELSE IF c = 237 THEN second(128, 159, 3)
        ELSE IF c >= 225 /\ c <= 239 THEN second(128, 191, 3)
        ELSE IF c = 240 THEN second(144, 191, 4)
        ELSE IF c = 244 THEN second(128, 143, 4)
        ELSE IF c >= 241 /\ c <= 243 THEN second(128, 191, 4)
        ELSE [valid |-> FALSE, len |-> 1]

RECURSIVE Utf8ValidFrom(_, _)
Utf8ValidFrom(b, i) ==
    IF i > Len(b) THEN TRUE
    ELSE LET ch == Utf8Chunk(b, i)
         IN  ch.valid /\ Utf8ValidFrom(b, i + ch.len)

\* String::from_utf8(b).is_ok()
from_utf8_ok(b) == Utf8ValidFrom(b, 1)

\* U+FFFD REPLACEMENT CHARACTER in UTF-8
REPLACEMENT == <<239, 191, 189>>

RECURSIVE LossyFrom(_, _)
LossyFrom(b, i) ==
    IF i > Len(b) THEN << >>
    ELSE LET ch == Utf8Chunk(b, i)
         IN  (IF ch.valid THEN SubSeq(b, i, i + ch.len - 1) ELSE REPLACEMENT)
             \o LossyFrom(b, i + ch.len)

\* OsStr::to_string_lossy(b).as_bytes()
to_string_lossy(b) == LossyFrom(b, 1)

(***************************************************************************)
(* de.rs: reading frames.  A read is a function of the stream and the      *)
(* reader position; its value carries the new position.  read_exact on a   *)
(* short stream consumes what is left and fails with UnexpectedEof.        *)
(***************************************************************************)
Ok(data, pos) == [kind |-> "Ok", data |-> data, pos |-> pos, arg |-> << >>]

Err(kind, pos, arg) == [kind |-> kind, data |-> << >>, pos |-> pos, arg |-> arg]

read_exact(s, pos, n) ==
    IF pos + n <= Len(s)
    THEN Ok(SubSeq(s, pos + 1, pos + n), pos + n)
    ELSE Err("Io", Len(s), << >>)

\* u64::from_le_bytes followed by `vec![0u8; len as usize]`: a length of
\* 2^63 or more exceeds isize::MAX and panics (capacity overflow); a length
\* of 2^24 or more is more than any stream of the model holds: the zeroed
\* allocation either aborts the process or, when the allocator grants it,
\* the read of the payload comes up short.
LenClass(lb) ==
    IF lb[8] >= 128 THEN "Overflow"
    ELSE IF \E i \in 4..8 : lb[i] # 0 THEN "Huge"
    ELSE "Small"

from_le_bytes(lb) == lb[1] + 256 * lb[2] + 65536 * lb[3]

\* The tail of read_bytes_padded: p is the read of the padding bytes.
padding_result(d, p) ==
    IF p.kind # "Ok" THEN p
    ELSE IF \E i \in 1..Len(p.data) : p.data[i] # 0 THEN Err("BadPadding", p.pos, << >>)
    ELSE Ok(d.data, p.pos)

\* d is the read of the payload.
padding_checked(s, d) ==
    IF d.kind # "Ok" THEN d
    ELSE IF Len(d.data) % PAD_LEN = 0 THEN d
    ELSE padding_result(d, read_exact(s, d.pos, PAD_LEN - (Len(d.data) % PAD_LEN)))

\* l is the read of the length prefix.
read_payload(s, alloc, l) ==
    IF l.kind # "Ok" THEN l
    ELSE IF LenClass(l.data) = "Overflow" THEN Err("Panic", l.pos, << >>)
    ELSE IF LenClass(l.data) = "Huge"
         THEN (IF alloc THEN Err("Io", Len(s), << >>) ELSE Err("Abort", l.pos, << >>))
    ELSE padding_checked(s, read_exact(s, l.pos, from_le_bytes(l.data)))

read_bytes_padded(s, pos, alloc) == read_payload(s, alloc, read_exact(s, pos, PAD_LEN))

\* String::from_utf8 on the bytes read
utf8_checked(r) ==
    IF r.kind # "Ok" THEN r
    ELSE IF from_utf8_ok(r.data) THEN r ELSE Err("Utf8", r.pos, << >>)

read_utf8_padded(s, pos, alloc) == utf8_checked(read_bytes_padded(s, pos, alloc))

tag_checked(r, tag) ==
    IF r.kind # "Ok" THEN r
    ELSE IF r.data = tag THEN r ELSE Err("MissingTag", r.pos, tag)

\* Archive::expect_tag: the error names the tag that was expected.
expect_tag(s, pos, alloc, tag) == tag_checked(read_utf8_padded(s, pos, alloc), tag)

(***************************************************************************)
(* de.rs: the values the entries iterator returns.  An item is Some(Ok     *)
(* (Entry)), Some(Err(Error)) or None; "Panic" and "Abort" stand for the   *)
(* process dying inside the call.                                          *)
(***************************************************************************)
Item(tag, err, arg, name, kind, executable, data, target) ==
    [tag |-> tag, err |-> err, arg |-> arg, name |-> name, kind |-> kind,
     executable |-> executable, data |-> data, target |-> target]

EntryItem(name, kind, executable, data, target) ==
    Item("Entry", "", << >>, name, kind, executable, data, target)

ErrItem(err, arg) == Item("Err", err, arg, << >>, "", FALSE, << >>, << >>)

NoneItem == Item("None", "", << >>, << >>, "", FALSE, << >>, << >>)

CrashItem(how) == Item(how, "", << >>, << >>, "", FALSE, << >>, << >>)

Crashes == {"Panic", "Abort"}

\* What a resumption of the generator gives: the item, the reader position
\* and the generator's next suspension point.
Out(item, pos, k, stack) ==
    [item |-> item, pos |-> pos, gen |-> [k |-> k, stack |-> stack]]

\* A read error propagated with `?` up to parse(), which yields it.
FailRead(r) ==
    IF r.kind \in Crashes
    THEN Out(CrashItem(r.kind), r.pos, "crashed", << >>)
    ELSE Out(ErrItem(r.kind, r.arg), r.pos, "failed", << >>)

Fail(err, arg, pos) == Out(ErrItem(err, arg), pos, "failed", << >>)

\* Path::join on byte strings (PathBuf::push).
Slash == 47

\* Path::join as a plain concatenation.
PathJoin_concat(p, n) == p \o n

PathJoin(p, n) ==
    IF n # << >> /\ n[1] = Slash THEN n
    ELSE IF p = << >> \/ p[Len(p)] = Slash THEN p \o n
    ELSE p \o <<Slash>> \o n

(***************************************************************************)
(* de.rs: LookAhead.  The slot is << >> (None) or <<tag>> (Some(tag)).     *)
(***************************************************************************)
eat_tag(slot, tag) ==
    IF slot # << >> /\ slot[1] = tag
    THEN [hit |-> TRUE, slot |-> << >>]
    ELSE [hit |-> FALSE, slot |-> slot]

\* fetch_from: assert_eq!(self.0, None), then read the next tag.
fetch_from(slot, s, pos, alloc) ==
    IF slot # << >> THEN Err("Panic", pos, << >>)
    ELSE read_utf8_padded(s, pos, alloc)

(***************************************************************************)
(* de.rs: try_parse.  Each operator below is try_parse from one read to    *)
(* the next: its last argument is the result of the read just made, and    *)
(* an error result leaves try_parse with `?`.  ParseNode is the head of    *)
(* try_parse up to its first yield; InDir is the loop of the directory     *)
(* branch, resumed after a yield; RetNode is the return from a nested      *)
(* try_parse.                                                              *)
(***************************************************************************)
\* "regular": c is the read of the closing `)`; then the entry is yielded.
RegularClosed(path, stack, executable, data, c) ==
    IF c.kind # "Ok" THEN FailRead(c)
    ELSE Out(EntryItem(path, "Regular", executable, data, << >>), c.pos, "retNode", stack)

\* "regular": d is the read of the contents.
RegularData(s, alloc, path, stack, executable, d) ==
    IF d.kind # "Ok" THEN FailRead(d)
    ELSE RegularClosed(path, stack, executable, d.data,
                       expect_tag(s, d.pos, alloc, TagClose))

\* "regular": la.expect_tag(Tag::Contents) on the lookahead slot, then the
\* contents are read from pos.
ParseContents(s, pos, alloc, path, stack, executable, slot) ==
    IF ~eat_tag(slot, TagContents).hit THEN Fail("MissingTag", TagContents, pos)
    ELSE RegularData(s, alloc, path, stack, executable, read_bytes_padded(s, pos, alloc))

\* "regular": la2 is the lookahead fetched after `executable` and its `""`.
RegularRefetched(s, alloc, path, stack, la2) ==
    IF la2.kind # "Ok" THEN FailRead(la2)
    ELSE ParseContents(s, la2.pos, alloc, path, stack, TRUE, <<la2.data>>)

\* "regular": e is archive.expect_tag(Tag::Empty); any Err it returns is
\* reported as InvalidTag(Executable).
ExecutableMarked(s, alloc, path, stack, slot, e) ==
    IF e.kind \in Crashes THEN FailRead(e)
    ELSE IF e.kind # "Ok" THEN Fail("InvalidTag", TagExecutable, e.pos)
    ELSE RegularRefetched(s, alloc, path, stack, fetch_from(slot, s, e.pos, alloc))

\* "regular": eaten is la.eat_tag(Tag::Executable), pos the position after
\* the lookahead.
RegularEaten(s, pos, alloc, path, stack, eaten) ==
    IF ~eaten.hit THEN ParseContents(s, pos, alloc, path, stack, FALSE, eaten.slot)
    ELSE ExecutableMarked(s, alloc, path, stack, eaten.slot,
                          expect_tag(s, pos, alloc, TagEmpty))

\* "regular": la is the first lookahead.
RegularFetched(s, alloc, path, stack, la) ==
    IF la.kind # "Ok" THEN FailRead(la)
    ELSE RegularEaten(s, la.pos, alloc, path, stack, eat_tag(<<la.data>>, TagExecutable))

ParseRegular(s, pos, alloc, path, stack) ==
    RegularFetched(s, alloc, path, stack, fetch_from(<< >>, s, pos, alloc))

\* "symlink": c is the read of the closing `)`.
SymlinkClosed(path, stack, target, c) ==
    IF c.kind # "Ok" THEN FailRead(c)
    ELSE Out(EntryItem(path, "Symlink", FALSE, << >>, target), c.pos, "retNode", stack)

\* "symlink": target is the read of the target string.
SymlinkTarget(s, alloc, path, stack, target) ==
    IF target.kind # "Ok" THEN FailRead(target)
    ELSE SymlinkClosed(path, stack, target.data, expect_tag(s, target.pos, alloc, TagClose))

\* "symlink": t is the read of the `target` tag.
SymlinkTagged(s, alloc, path, stack, t) ==
    IF t.kind # "Ok" THEN FailRead(t)
    ELSE SymlinkTarget(s, alloc, path, stack, read_utf8_padded(s, t.pos, alloc))

ParseSymlink(s, pos, alloc, path, stack) ==
    SymlinkTagged(s, alloc, path, stack, expect_tag(s, pos, alloc, TagTarget))

\* ft is the read of the file type: the match on it.
NodeTyped(s, alloc, path, stack, ft) ==
    IF ft.kind # "Ok" THEN FailRead(ft)
    ELSE IF ft.data = TagRegular THEN ParseRegular(s, ft.pos, alloc, path, stack)
    ELSE IF ft.data = TagSymlink THEN ParseSymlink(s, ft.pos, alloc, path, stack)
    ELSE IF ft.data = TagDirectory
         THEN Out(EntryItem(path, "Directory", FALSE, << >>, << >>),
                  ft.pos, "inDir", Append(stack, path))
    ELSE Fail("UnknownFileType", ft.data, ft.pos)

\* t is the read of the `type` tag.
NodeTagged(s, alloc, path, stack, t) ==
    IF t.kind # "Ok" THEN FailRead(t)
    ELSE NodeTyped(s, alloc, path, stack, read_utf8_padded(s, t.pos, alloc))

\* o is the read of the opening `(`.
NodeOpened(s, alloc, path, stack, o) ==
    IF o.kind # "Ok" THEN FailRead(o)
    ELSE NodeTagged(s, alloc, path, stack, expect_tag(s, o.pos, alloc, TagType))

ParseNode(s, pos, alloc, path, stack) ==
    NodeOpened(s, alloc, path, stack, expect_tag(s, pos, alloc, TagOpen))

Contains(b, c) == \E i \in 1..Len(b) : b[i] = c

NameTilde == <<126>>
NameDot == <<46>>
NameDotDot == <<46, 46>>

\* The match on entry_name: the error it returns, or "" when the name passes.
validate_name(n) ==
    IF n = << >> THEN "InvalidDirEntryName"
    ELSE IF n = NameTilde THEN "InvalidDirEntryName"
    ELSE IF n = NameDot THEN "InvalidDirEntryName"
    ELSE IF n = NameDotDot THEN "InvalidDirEntryName"
    ELSE IF Contains(n, Slash) THEN "InvalidDirEntryChar"
    ELSE ""

\* d is the read of the `node` tag: the nested try_parse starts.
EntryNode(s, alloc, stack, name, d) ==
    IF d.kind # "Ok" THEN FailRead(d)
    ELSE ParseNode(s, d.pos, alloc, PathJoin(stack[Len(stack)], name), stack)

\* n is the read of the entry's name.
EntryNamed(s, alloc, stack, n) ==
    IF n.kind # "Ok" THEN FailRead(n)
    ELSE IF validate_name(n.data) = "InvalidDirEntryName"
         THEN Fail("InvalidDirEntryName", n.data, n.pos)
    ELSE IF validate_name(n.data) = "InvalidDirEntryChar"
         THEN Fail("InvalidDirEntryChar", <<Slash>>, n.pos)
    ELSE EntryNode(s, alloc, stack, n.data, expect_tag(s, n.pos, alloc, TagNode))

\* t is the read of the `name` tag.
EntryTagged(s, alloc, stack, t) ==
    IF t.kind # "Ok" THEN FailRead(t)
    ELSE EntryNamed(s, alloc, stack, read_utf8_padded(s, t.pos, alloc))

\* o is the read of the `(` after `entry`.
EntryOpened(s, alloc, stack, o) ==
    IF o.kind # "Ok" THEN FailRead(o)
    ELSE EntryTagged(s, alloc, stack, expect_tag(s, o.pos, alloc, TagName))

ParseEntry(s, pos, alloc, stack) ==
    EntryOpened(s, alloc, stack, expect_tag(s, pos, alloc, TagOpen))

RECURSIVE InDir(_, _, _, _)
RECURSIVE RetNode(_, _, _, _)

\* t is the tag read at the top of the directory loop.
DirTag(s, alloc, stack, t) ==
    IF t.kind # "Ok" THEN FailRead(t)
    ELSE IF t.data = TagEntry THEN ParseEntry(s, t.pos, alloc, stack)
    ELSE IF t.data = TagClose THEN RetNode(s, t.pos, alloc, SubSeq(stack, 1, Len(stack) - 1))
    ELSE Fail("InvalidDirEntry", << >>, t.pos)

InDir(s, pos, alloc, stack) == DirTag(s, alloc, stack, read_utf8_padded(s, pos, alloc))

\* c is the read of the `)` that closes an entry.
EntryClosed(s, alloc, stack, c) ==
    IF c.kind # "Ok" THEN FailRead(c) ELSE InDir(s, c.pos, alloc, stack)

\* try_parse returned Ok to its caller: to parse() at the root, which ends
\* the generator, or to the parent directory's loop, which expects the `)`
\* closing the entry.
RetNode(s, pos, alloc, stack) ==
    IF stack = << >> THEN Out(NoneItem, pos, "done", << >>)
    ELSE EntryClosed(s, alloc, stack, expect_tag(s, pos, alloc, TagClose))

\* A resumption that parses on from the reader's position after an error.
Resume_unfused(s, pos, alloc, g) ==
    IF g.k \in {"start", "failed"} THEN ParseNode(s, pos, alloc, << >>, << >>)
    ELSE IF g.k = "inDir" THEN InDir(s, pos, alloc, g.stack)
    ELSE IF g.k = "retNode" THEN RetNode(s, pos, alloc, g.stack)
    ELSE Out(NoneItem, pos, "done", << >>)

\* One resumption of the generator (Iterator::next on Gen::into_iter).
Resume(s, pos, alloc, g) ==
    IF g.k = "start" THEN ParseNode(s, pos, alloc, << >>, << >>)
    ELSE IF g.k = "inDir" THEN InDir(s, pos, alloc, g.stack)
    ELSE IF g.k = "retNode" THEN RetNode(s, pos, alloc, g.stack)
    ELSE Out(NoneItem, pos, "done", << >>)

\* m is the read of the magic frame.
magic_checked(m) ==
    IF m.kind # "Ok" THEN m
    ELSE IF m.data # NIX_VERSION_MAGIC THEN Err("InvalidMagic", m.pos, << >>)
    ELSE m

\* entries_inner without the test of the position.
entries_inner_unguarded(s, pos, alloc) == magic_checked(read_bytes_padded(s, pos, alloc))

\* Archive::entries_inner: the result and the reader position after it.
entries_inner(s, pos, alloc) ==
    IF pos # 0 THEN Err("GetEntriesAfterRead", pos, << >>)
    ELSE magic_checked(read_bytes_padded(s, pos, alloc))

(***************************************************************************)
(* The file system.  A node is a directory, a regular file or a symlink;   *)
(* mtime and btime are its modification and creation times, 0 being the    *)
(* epoch.  Paths are resolved as the kernel resolves them: relative to the *)
(* working directory, through the symlinks on the way.                     *)
(***************************************************************************)
Now == 1

MaxSymlinkHops == 3

Node(kind, executable, data, target, mtime) ==
    [kind |-> kind, executable |-> executable, data |-> data, target |-> target,
     mtime |-> mtime, btime |-> Now]

DirNode == Node("dir", FALSE, << >>, << >>, Now)

FileNode(executable, data) == Node("file", executable, data, << >>, Now)

SymlinkNode(target) == Node("symlink", FALSE, << >>, target, Now)

\* The working directory of the process and a directory beside it.
NameW == <<119>>
NameO == <<111>>
Cwd == <<NameW>>
Outside == <<NameO>>

IsAbsolute(p) == p # << >> /\ p[1] = Slash

\* The names between the separators of p, empty ones dropped.
RECURSIVE SplitFrom(_, _, _)
SplitFrom(p, i, cur) ==
    IF i > Len(p) THEN (IF cur = << >> THEN << >> ELSE <<cur>>)
    ELSE IF p[i] = Slash
         THEN (IF cur = << >> THEN << >> ELSE <<cur>>) \o SplitFrom(p, i + 1, << >>)
         ELSE SplitFrom(p, i + 1, Append(cur, p[i]))

Split(p) == SplitFrom(p, 1, << >>)

Front(q) == SubSeq(q, 1, Len(q) - 1)

IsPrefix(a, b) == Len(a) <= Len(b) /\ SubSeq(b, 1, Len(a)) = a

Walked(err, path, exists) == [err |-> err, path |-> path, exists |-> exists]

RECURSIVE Walk(_, _, _, _, _)
Walk(f, cur, rest, follow, fuel) ==
    IF rest = << >> THEN Walked("", cur, TRUE)
    ELSE IF f[cur].kind # "dir" THEN Walked("NotADirectory", cur, FALSE)
    ELSE LET c == Head(rest)
             tail == Tail(rest)
             q == Append(cur, c)
         IN  IF c = NameDot THEN Walk(f, cur, tail, follow, fuel)
             ELSE IF c = NameDotDot
                  THEN Walk(f, IF cur = << >> THEN cur ELSE Front(cur), tail, follow, fuel)
             ELSE IF q \notin DOMAIN f
                  THEN (IF tail = << >> THEN Walked("", q, FALSE)
                        ELSE Walked("NotFound", q, FALSE))
             ELSE IF f[q].kind = "symlink" /\ (tail # << >> \/ follow)
                  THEN (IF fuel = 0 THEN Walked("FilesystemLoop", q, FALSE)
                        ELSE Walk(f, IF IsAbsolute(f[q].target) THEN << >> ELSE cur,
                                  Split(f[q].target) \o tail, follow, fuel - 1))
             ELSE IF tail = << >> THEN Walked("", q, TRUE)
             ELSE Walk(f, q, tail, follow, fuel)

\* Where path string p leads; `follow` says whether a symlink in the last
\* position is followed (stat) or not (lstat, mkdir, unlink, O_EXCL).
Resolve(f, p, follow) ==
    IF p = << >> THEN Walked("NotFound", << >>, FALSE)
    ELSE Walk(f, IF IsAbsolute(p) THEN << >> ELSE Cwd, Split(p), follow, MaxSymlinkHops)

\* The result of a file system call: an io::ErrorKind ("" for Ok) and the
\* file system after it.
FsOk(f) == [err |-> "", fs |-> f]

FsErr(kind, f) == [err |-> kind, fs |-> f]

Touch(f, q) == IF q = << >> THEN f ELSE [f EXCEPT ![Front(q)].mtime = Now]

\* r is where the path leads.
Exists(r) == r.err = "" /\ r.exists

\* fs::symlink_metadata(p).is_ok()
lstat_ok(f, p) == Exists(Resolve(f, p, FALSE))

\* fs::metadata(p).is_ok(), Path::exists
stat_ok(f, p) == Exists(Resolve(f, p, TRUE))

IsDirAt(f, r) == Exists(r) /\ f[r.path].kind = "dir"

\* fs::metadata(p).map(|m| m.is_dir()).unwrap_or(false)
stat_is_dir(f, p) == IsDirAt(f, Resolve(f, p, TRUE))

CreateAt(f, node, r) ==
    IF r.err # "" THEN FsErr(r.err, f)
    ELSE IF r.exists THEN FsErr("AlreadyExists", f)
    ELSE FsOk(Touch(f, r.path) @@ (r.path :> node))

\* A call that creates `node` at p: mkdir, open(O_CREAT | O_EXCL), symlink.
Create(f, p, node) == CreateAt(f, node, Resolve(f, p, FALSE))

create_dir(f, p) == Create(f, p, DirNode)

RemoveAt(f, r) ==
    IF r.err # "" THEN FsErr(r.err, f)
    ELSE IF ~r.exists THEN FsErr("NotFound", f)
    ELSE IF f[r.path].kind = "dir" THEN FsErr("IsADirectory", f)
    ELSE FsOk(Touch([q \in DOMAIN f \ {r.path} |-> f[q]], r.path))

\* fs::remove_file (unlink)
remove_file(f, p) == RemoveAt(f, Resolve(f, p, FALSE))

SetTimesAt(f, r) ==
    IF r.err # "" THEN FsErr(r.err, f)
    ELSE IF ~r.exists THEN FsErr("NotFound", f)
    ELSE FsOk([f EXCEPT ![r.path].mtime = 0])

\* filetime::set_symlink_file_times(p, atime, FileTime::zero())
set_symlink_file_times(f, p) == SetTimesAt(f, Resolve(f, p, FALSE))

(***************************************************************************)
(* std::path: Path::components and Path::parent on byte strings (Unix: no  *)
(* prefix component exists).  A "." is a component only at the very start  *)
(* of a relative path.                                                     *)
(***************************************************************************)
Comp(kind, name) == [kind |-> kind, name |-> name]

LeadingDot(p) == Len(p) >= 1 /\ p[1] = 46 /\ (Len(p) = 1 \/ p[2] = Slash)

RECURSIVE CompsOf(_, _, _)
CompsOf(parts, i, lead) ==
    IF i > Len(parts) THEN << >>
    ELSE LET c == parts[i]
         IN  (IF c = NameDot
              THEN (IF i = 1 /\ lead THEN <<Comp("CurDir", c)>> ELSE << >>)
              ELSE IF c = NameDotDot THEN <<Comp("ParentDir", c)>>
              ELSE <<Comp("Normal", c)>>)
             \o CompsOf(parts, i + 1, lead)

Components(p) ==
    (IF IsAbsolute(p) THEN <<Comp("RootDir", <<Slash>>)>> ELSE << >>)
    \o CompsOf(Split(p), 1, LeadingDot(p))

RECURSIVE Render(_, _)
Render(cs, i) ==
    IF i > Len(cs) THEN << >>
    ELSE IF cs[i].kind = "RootDir" THEN cs[i].name \o Render(cs, i + 1)
    ELSE cs[i].name \o (IF i < Len(cs) THEN <<Slash>> ELSE << >>) \o Render(cs, i + 1)

\* Path::parent: [some, path]; None for "" and for "/".
Parent(p) ==
    LET cs == Components(p)
    IN  IF cs = << >> \/ cs[Len(cs)].kind = "RootDir"
        THEN [some |-> FALSE, path |-> << >>]
        ELSE [some |-> TRUE, path |-> Render(Front(cs), 1)]

(***************************************************************************)
(* de.rs: Entry::unpack_in and the three writers.  remove_xattrs acts only *)
(* under the crate's "xattr" feature; the nodes of the model carry no      *)
(* extended attributes.                                                    *)
(***************************************************************************)
\* r is the result of fs::create_dir.
DirCreated(f, p, r) ==
    IF r.err = "AlreadyExists" /\ stat_is_dir(f, p) THEN FsOk(f) ELSE r

\* fs::create_dir_all: the missing parents are created first.
RECURSIVE create_dir_all(_, _)
create_dir_all(f, p) ==
    IF Parent(p).some /\ Parent(p).path # << >> /\ ~stat_ok(f, Parent(p).path)
    THEN Create(create_dir_all(f, Parent(p).path).fs, p, DirNode)
    ELSE Create(f, p, DirNode)

\* unpack_dir over create_dir_all.
unpack_dir_all(f, p) == DirCreated(f, p, create_dir_all(f, p))

\* Entry::unpack_dir
unpack_dir(f, p) == DirCreated(f, p, create_dir(f, p))

\* rm is the result of the removal of what was at p, if anything was.
CreateAfter(p, node, rm) ==
    IF rm.err # "" THEN rm ELSE Create(rm.fs, p, node)

\* Entry::unpack_file
unpack_file(f, p, executable, data) ==
    CreateAfter(p, FileNode(executable, data),
                IF stat_ok(f, p) THEN remove_file(f, p) ELSE FsOk(f))

SymlinkAfter(p, target, rm) ==
    IF rm.err # "" THEN rm
    ELSE IF target = << >> THEN FsErr("NotFound", rm.fs)
    ELSE Create(rm.fs, p, SymlinkNode(target))

\* Entry::unpack_symlink; symlink(2) refuses an empty target.
unpack_symlink(f, p, target) ==
    SymlinkAfter(p, target, IF lstat_ok(f, p) THEN remove_file(f, p) ELSE FsOk(f))

KindsIn(cs) == {cs[i].kind : i \in 1..Len(cs)}

\* The scan with ParentDir alone rejected.
path_check_parent_only(p) == "ParentDir" \in KindsIn(Components(p))

\* The component scan at the head of unpack_in: TRUE when a component is
\* rejected.
path_check(p) == KindsIn(Components(p)) \cap {"Prefix", "RootDir", "ParentDir"} # {}

\* dst joined with the entry's name
UnpackPath(name, d) == IF name = << >> THEN d ELSE PathJoin(d, name)

BornAtEpoch(f, r) == Exists(r) /\ f[r.path].btime = 0

ParentBornAtEpoch(f, par) == par.some /\ BornAtEpoch(f, Resolve(f, par.path, FALSE))

\* recanonicalize_parent: the parent exists and its creation time is the
\* epoch.
recanonicalize_parent(f, name, path) ==
    name # << >> /\ ParentBornAtEpoch(f, Parent(path))

\* The result of unpack_in: an Error kind ("" for Ok(())), the path it
\* carries, and the file system after the call.
Unpacked(err, path, f) == [err |-> err, path |-> path, fs |-> f]

\* rp is the result of setting the parent's times again.
ParentRestored(path, rp) == Unpacked(IF rp.err # "" THEN "Io" ELSE "", path, rp.fs)

\* c is the result of the canonicalization of the node's mtime.
MtimeSet(path, recanon, c) ==
    IF c.err # "" THEN Unpacked("Io", path, c.fs)
    ELSE ParentRestored(path, IF recanon
                              THEN set_symlink_file_times(c.fs, Parent(path).path)
                              ELSE FsOk(c.fs))

\* w is the result of writing the node.
NodeWritten(path, canonicalize, recanon, w) ==
    IF w.err # "" THEN Unpacked("IoAt", path, w.fs)
    ELSE MtimeSet(path, recanon, IF canonicalize THEN set_symlink_file_times(w.fs, path)
                                 ELSE FsOk(w.fs))

write_node(f, e, path) ==
    IF e.kind = "Directory" THEN unpack_dir(f, path)
    ELSE IF e.kind = "Regular" THEN unpack_file(f, path, e.executable, e.data)
    ELSE unpack_symlink(f, path, e.target)

UnpackAt(f, e, path, canonicalize) ==
    IF path_check(path) THEN Unpacked("InvalidPathComponent", path, f)
    ELSE NodeWritten(path, canonicalize, recanonicalize_parent(f, e.name, path),
                     write_node(f, e, path))

unpack_in(f, e, d, canonicalize) == UnpackAt(f, e, UnpackPath(e.name, d), canonicalize)

(***************************************************************************)
(* ser.rs: the encoder.  An encoding is [err, out]: the io::ErrorKind ("" *)
(* for Ok) and the bytes written so far.                                   *)
(***************************************************************************)
Enc(err, out) == [err |-> err, out |-> out]

\* write_padded_from_reader: the prefix and the padding follow `len`, the
\* payload is whatever io::copy reads from the file.
write_padded_from_reader(content, len) ==
    LET remainder == len % PAD_LEN
    IN  to_le_bytes(len) \o content \o
        (IF remainder > 0 THEN Zeros(PAD_LEN - remainder) ELSE << >>)

\* Byte-lexicographic order, the order of Path::cmp on siblings.
RECURSIVE LexLess(_, _)
LexLess(a, b) ==
    IF b = << >> THEN FALSE
    ELSE IF a = << >> THEN TRUE
    ELSE IF a[1] # b[1] THEN a[1] < b[1]
    ELSE LexLess(Tail(a), Tail(b))

\* fs::read_dir: the names in the directory at resolved path q.
ReadDir(f, q) == {p[Len(p)] : p \in {r \in DOMAIN f : Len(r) = Len(q) + 1 /\ Front(r) = q}}

\* entries.sort_by(|x, y| x.path().cmp(&y.path()))
RECURSIVE SortNames(_)
SortNames(S) ==
    IF S = {} THEN << >>
    ELSE LET m == CHOOSE x \in S : \A y \in S \ {x} : LexLess(x, y)
         IN  <<m>> \o SortNames(S \ {m})

RECURSIVE encode_entry(_, _)
RECURSIVE EncodeChildren(_, _, _, _)

EntryHead(name) ==
    write_padded(TagEntry) \o write_padded(TagOpen) \o write_padded(TagName)
    \o write_padded(to_string_lossy(name)) \o write_padded(TagNode)

\* child is the encoding of the entry's node, rest that of the entries after
\* it: `?` leaves the loop at the first error.
ChildEncoded(name, child, rest) ==
    IF child.err # "" THEN Enc(child.err, EntryHead(name) \o child.out)
    ELSE Enc(rest.err, EntryHead(name) \o child.out \o write_padded(TagClose) \o rest.out)

\* for entry in entries { ... }
EncodeChildren(f, path, names, i) ==
    IF i > Len(names) THEN Enc("", << >>)
    ELSE ChildEncoded(names[i], encode_entry(f, PathJoin(path, names[i])),
                      EncodeChildren(f, path, names, i + 1))

NodeHead == write_padded(TagOpen) \o write_padded(TagType)

\* es is the encoding of the directory's entries.
DirEncoded(es) ==
    IF es.err # "" THEN Enc(es.err, NodeHead \o write_padded(TagDirectory) \o es.out)
    ELSE Enc("", NodeHead \o write_padded(TagDirectory) \o es.out \o write_padded(TagClose))

FileEncoded(node) ==
    Enc("", NodeHead \o write_padded(TagRegular)
            \o (IF node.executable
                THEN write_padded(TagExecutable) \o write_padded(TagEmpty)
                ELSE << >>)
            \o write_padded(TagContents)
            \o write_padded_from_reader(node.data, Len(node.data))
            \o write_padded(TagClose))

SymlinkEncoded(node) ==
    Enc("", NodeHead \o write_padded(TagSymlink) \o write_padded(TagTarget)
            \o write_padded(to_string_lossy(node.target)) \o write_padded(TagClose))

\* r is where fs::symlink_metadata(path) leads.
EncodeAt(f, path, r) ==
    IF r.err # "" THEN Enc(r.err, << >>)
    ELSE IF ~r.exists THEN Enc("NotFound", << >>)
    ELSE IF f[r.path].kind = "dir"
         THEN DirEncoded(EncodeChildren(f, path, SortNames(ReadDir(f, r.path)), 1))
    ELSE IF f[r.path].kind = "file" THEN FileEncoded(f[r.path])
    ELSE SymlinkEncoded(f[r.path])

encode_entry(f, path) == EncodeAt(f, path, Resolve(f, path, FALSE))

RootEncoded(e) == Enc(e.err, write_padded(NIX_VERSION_MAGIC) \o e.out)

\* to_writer / to_vec
to_writer(f, path) ==
    IF ~lstat_ok(f, path) THEN Enc("NotFound", << >>)
    ELSE RootEncoded(encode_entry(f, path))

(***************************************************************************)
(* Inputs.  A wire tree is a NAR node as it is written on the wire, with   *)
(* any names in any order; its stream is a sequence of frames, and a       *)
(* mutation damages one frame, cuts the stream or appends to it.           *)
(***************************************************************************)
MaxData == 1

MaxPayload == 17

MaxCalls == 2

WFile(executable, data) ==
    [type |-> "regular", executable |-> executable, data |-> data,
     target |-> << >>, entries |-> << >>]

WLink(target) ==
    [type |-> "symlink", executable |-> FALSE, data |-> << >>,
     target |-> target, entries |-> << >>]

WDir(entries) ==
    [type |-> "directory", executable |-> FALSE, data |-> << >>,
     target |-> << >>, entries |-> entries]

WEntry(name, node) == [name |-> name, node |-> node]

MkFrame(b) ==
    [len |-> to_le_bytes(Len(b)), data |-> b,
     pad |-> Zeros((PAD_LEN - (Len(b) % PAD_LEN)) % PAD_LEN)]

RECURSIVE Frames(_)
RECURSIVE EntryFrames(_, _)

EntryFrames(es, i) ==
    IF i > Len(es) THEN << >>
    ELSE <<MkFrame(TagEntry), MkFrame(TagOpen), MkFrame(TagName), MkFrame(es[i].name),
           MkFrame(TagNode)>> \o Frames(es[i].node) \o <<MkFrame(TagClose)>>
         \o EntryFrames(es, i + 1)

Frames(t) ==
    <<MkFrame(TagOpen), MkFrame(TagType)>> \o
    (IF t.type = "regular"
     THEN <<MkFrame(TagRegular)>>
          \o (IF t.executable THEN <<MkFrame(TagExecutable), MkFrame(TagEmpty)>> ELSE << >>)
          \o <<MkFrame(TagContents), MkFrame(t.data)>>
     ELSE IF t.type = "symlink"
     THEN <<MkFrame(TagSymlink), MkFrame(TagTarget), MkFrame(t.target)>>
     ELSE <<MkFrame(TagDirectory)>> \o EntryFrames(t.entries, 1))
    \o <<MkFrame(TagClose)>>

ArchiveFrames(t) == <<MkFrame(NIX_VERSION_MAGIC)>> \o Frames(t)

RECURSIVE Flatten(_, _)
Flatten(fr, i) ==
    IF i > Len(fr) THEN << >>
    ELSE fr[i].len \o fr[i].data \o fr[i].pad \o Flatten(fr, i + 1)

\* Mutations of the frame sequence fr.
Mut(kind, i, j, v) == [kind |-> kind, i |-> i, j |-> j, v |-> v]

NoMut == Mut("none", 0, 0, << >>)

BadPad(pad, j) == [k \in 1..Len(pad) |-> IF k = j THEN 1 ELSE 0]

Vocab ==
    {TagEmpty, TagClose, TagRegular, TagDirectory,
     TagEntry, TagContents, TagExecutable, <<120>>, <<255>>}

Mutations(fr) ==
    {Mut("pad", i, j, << >>) : i \in {k \in 1..Len(fr) : fr[k].pad # << >>}, j \in {1, 7}}
    \cup {Mut("data", i, j, v) : i \in 1..Len(fr), j \in {0, 1}, v \in Vocab}
    \cup {Mut("len", i, j, << >>) : i \in 1..Len(fr), j \in {1, 4, 8}}
    \cup {Mut("cut", i, j, << >>) : i \in 1..Len(fr), j \in {4, 8, 9}}
    \cup {Mut("tail", 0, j, << >>) : j \in {0, 1, 2}}

\* The padding slot of frame m.i holds a non-zero byte after mutation m.
PadDamaged(fr, m) ==
    \/ m.kind = "pad" /\ Min(m.j, Len(fr[m.i].pad)) >= 1
    \/ m.kind = "data" /\ m.j = 1 /\ MkFrame(m.v).pad # << >>

MutFrame(f, m) ==
    IF m.kind = "pad" THEN [f EXCEPT !.pad = BadPad(f.pad, Min(m.j, Len(f.pad)))]
    ELSE IF m.kind = "data"
         THEN [MkFrame(m.v) EXCEPT !.pad = BadPad(MkFrame(m.v).pad, m.j)]
    ELSE IF m.kind = "len"
         THEN [f EXCEPT !.len = [k \in 1..PAD_LEN |->
                  IF k # m.j THEN f.len[k] ELSE IF k = 8 THEN 128 ELSE f.len[k] + 1]]
    ELSE f

MutFrames(fr, m) ==
    [k \in 1..Len(fr) |-> IF k = m.i THEN MutFrame(fr[k], m) ELSE fr[k]]

Trailing(j) ==
    IF j = 0 THEN <<0>>
    ELSE IF j = 1 THEN Flatten(<<MkFrame(TagClose)>>, 1)
    ELSE Flatten(Frames(WLink(<<116>>)), 1)

MutStream(fr, m) ==
    IF m.kind = "cut"
    THEN LET before == Flatten(SubSeq(fr, 1, m.i - 1), 1)
             this == Flatten(<<fr[m.i]>>, 1)
         IN  before \o SubSeq(this, 1, Min(m.j, Len(this) - 1))
    ELSE IF m.kind = "tail" THEN Flatten(fr, 1) \o Trailing(m.j)
    ELSE Flatten(MutFrames(fr, m), 1)

\* Names, contents and targets the inputs are built from.
NameA == <<97>>
NameB == <<98>>
NameX == <<120>>
NameSlash == <<97, 47, 98>>
NameNotUtf8 == <<255>>
NameNotUtf8Slash == <<255, 47>>

BadNames == {<< >>, NameDot, NameDotDot, NameTilde, NameSlash}

WireNames == {NameA, NameB, NameNotUtf8, NameNotUtf8Slash} \cup BadNames

Datas == {Repeat(120, n) : n \in 0..MaxData}

TargetOutside == <<Slash>> \o NameO
TargetT == <<116>>

WFiles == {WFile(e, d) : e \in BOOLEAN, d \in Datas}

WLeaves == WFiles \cup {WLink(TargetOutside), WLink(TargetT)}

FileX == WFile(FALSE, <<120>>)

NestedTree ==
    WDir(<<WEntry(NameA, WDir(<<WEntry(NameX, FileX)>>)),
           WEntry(NameB, WFile(TRUE, << >>))>>)

CleanTrees ==
    WLeaves \cup {WLink(<< >>), WLink(NameNotUtf8), WDir(<< >>), NestedTree}
    \cup {WDir(<<WEntry(n, l)>>) : n \in WireNames, l \in WLeaves}
    \cup {WDir(<<WEntry(n1, l1), WEntry(n2, l2)>>) :
             n1 \in {NameA, NameB, NameTilde}, n2 \in {NameA, NameB, NameTilde},
             l1 \in {FileX, WLink(TargetOutside)}, l2 \in {FileX, WLink(TargetOutside)}}
    \cup {WDir(<<WEntry(n1, WDir(<<WEntry(n2, FileX)>>))>>) :
             n1 \in {NameA, NameDotDot}, n2 \in WireNames}
    \cup {WDir(<<WEntry(n1, l), WEntry(n2, WDir(<<WEntry(NameX, FileX)>>))>>) :
             n1 \in {NameA, NameB}, n2 \in {NameA, NameB},
             l \in {FileX, WLink(TargetOutside), WLink(TargetT)}}

TamperBases == {WFile(TRUE, <<120>>), WLink(TargetT), NestedTree}

\* Destinations: relative, with a leading ".", absolute, and with "..".
DstD == <<100>>
Dsts == {DstD, <<46, 47, 100>>, <<47, 111, 47, 100>>, <<46, 46, 47, 100>>,
         <<100, 47, 46, 46, 47, 100>>}

Scenario(tree, mut, d, canonicalize, al) ==
    [tree |-> tree, mut |-> mut, dst |-> d, canonicalize |-> canonicalize, alloc |-> al]

\* The allocator's answer matters only where a length prefix is huge.
Allocs(m) == IF m.kind = "len" /\ m.j = 4 THEN {TRUE, FALSE} ELSE {TRUE}

\* The stream of a scenario; the empty tree with mutation "empty" stands for
\* a reader that holds no byte at all.
StreamOf(sc) ==
    IF sc.mut.kind = "empty" THEN << >>
    ELSE IF sc.mut.kind = "none" THEN Flatten(ArchiveFrames(sc.tree), 1)
    ELSE MutStream(ArchiveFrames(sc.tree), sc.mut)

DecodeScenarios ==
    {Scenario(t, NoMut, d, TRUE, TRUE) : t \in CleanTrees, d \in Dsts}
    \cup {Scenario(t, NoMut, DstD, FALSE, TRUE) : t \in CleanTrees}
    \cup UNION {UNION {{Scenario(t, m, DstD, TRUE, al) : al \in Allocs(m)} :
                           m \in Mutations(ArchiveFrames(t))} : t \in TamperBases}
    \cup {Scenario(WDir(<< >>), Mut("empty", 0, 0, << >>), DstD, TRUE, TRUE)}

InitFs == (<< >> :> DirNode) @@ (Cwd :> DirNode) @@ (Outside :> DirNode)

(***************************************************************************)
(* The state machine.  An Archive is built over `stream`; the caller calls *)
(* entries() and drives the iterator, unpacking entries or not, or calls   *)
(* unpack(dst), whose loop body is one step per entry.                     *)
(***************************************************************************)
Last(op, err, did, path) == [op |-> op, err |-> err, did |-> did, path |-> path]

NoGen == [k |-> "none", stack |-> << >>]

InitCommon ==
    /\ fs = InitFs
    /\ fs0 = InitFs
    /\ writer = << >>
    /\ first = << >>
    /\ position = 0
    /\ gen = NoGen
    /\ yielded = << >>
    /\ calls = [n |-> 0, ok |-> 0]
    /\ last = Last("init", "", FALSE, << >>)

InitDecode ==
    /\ input \in DecodeScenarios
    /\ stream = StreamOf(input)
    /\ dst = input.dst
    /\ params = [canonicalize_mtime |-> input.canonicalize, remove_xattrs |-> TRUE]
    /\ alloc_ok = input.alloc
    /\ pc = "idle"
    /\ InitCommon

\* The head of entries() and of unpack(): r is the result of entries_inner.
Called(op, running, r) ==
    /\ position' = r.pos
    /\ pc' = IF r.kind = "Ok" THEN running
             ELSE IF r.kind \in Crashes THEN "crashed" ELSE "idle"
    /\ gen' = IF r.kind = "Ok" THEN [k |-> "start", stack |-> << >>] ELSE gen
    /\ calls' = [n |-> calls.n + 1, ok |-> calls.ok + (IF r.kind = "Ok" THEN 1 ELSE 0)]
    /\ last' = Last(op, IF r.kind = "Ok" THEN "" ELSE r.kind, FALSE, << >>)
    /\ UNCHANGED <<input, fs, fs0, writer, first, stream, params, alloc_ok, dst, yielded>>

CallEntries ==
    /\ pc = "idle"
    /\ calls.n < MaxCalls
    /\ Called("entries", "iter", entries_inner(stream, position, alloc_ok))

CallUnpack ==
    /\ pc = "idle"
    /\ calls.n < MaxCalls
    /\ Called("unpack", "unpacking", entries_inner(stream, position, alloc_ok))

Record(items, item) ==
    IF item.tag \in {"Entry", "Err"} THEN Append(items, item) ELSE items

\* o is what the resumption of the generator gave.
Returned(o) ==
    /\ position' = o.pos
    /\ gen' = o.gen
    /\ pc' = IF o.item.tag \in Crashes THEN "crashed" ELSE pc
    /\ yielded' = Record(yielded, o.item)
    /\ last' = Last("next", o.item.err, FALSE, << >>)
    /\ UNCHANGED <<input, fs, fs0, writer, first, stream, params, alloc_ok, dst, calls>>

\* Iterator::next on the iterator entries() returned.
IterNext ==
    /\ pc = "iter"
    /\ gen.k # "done"
    /\ Returned(Resume(stream, position, alloc_ok, gen))

\* u is the result of unpack_in.
UnpackedIn(u) ==
    /\ fs' = u.fs
    /\ last' = Last("unpack_in", u.err, TRUE, u.path)
    /\ UNCHANGED <<input, fs0, writer, first, stream, position, params, alloc_ok,
                   gen, pc, dst, yielded, calls>>

\* Entry::unpack_in(dst) on the entry the iterator returned last.
EntryUnpackIn ==
    /\ pc = "iter"
    /\ last.op = "next"
    /\ yielded # << >>
    /\ yielded[Len(yielded)].tag = "Entry"
    /\ UnpackedIn(unpack_in(fs, yielded[Len(yielded)], dst, params.canonicalize_mtime))

\* The iterator is dropped: the borrow of the Archive ends.
IterDrop ==
    /\ pc = "iter"
    /\ pc' = "idle"
    /\ last' = Last("drop", "", FALSE, << >>)
    /\ UNCHANGED <<input, fs, fs0, writer, first, stream, position, params,
                   alloc_ok, gen, dst, yielded, calls>>

\* unpack_inner: `file.unpack_in(dst)?` returned u.
LoopUnpacked(u) ==
    /\ fs' = u.fs
    /\ pc' = IF u.err = "" THEN "unpacking" ELSE "idle"
    /\ last' = Last(IF u.err = "" THEN "unpack_in" ELSE "unpack", u.err, TRUE, u.path)

\* unpack_inner: the iterator gave o: `entry?` leaves with an Err, the loop
\* ends at None.
LoopTurn(o) ==
    /\ position' = o.pos
    /\ gen' = o.gen
    /\ yielded' = Record(yielded, o.item)
    /\ IF o.item.tag \in Crashes
       THEN pc' = "crashed" /\ fs' = fs /\ last' = Last("unpack", o.item.tag, FALSE, << >>)
       ELSE IF o.item.tag \in {"None", "Err"}
       THEN pc' = "idle" /\ fs' = fs /\ last' = Last("unpack", o.item.err, FALSE, << >>)
       ELSE LoopUnpacked(unpack_in(fs, o.item, dst, params.canonicalize_mtime))
    /\ UNCHANGED <<input, fs0, writer, first, stream, params, alloc_ok, dst, calls>>

\* One turn of the loop of unpack_inner:
\* `for entry in self.entries_inner()? { entry?.unpack_in(dst)? }`.
UnpackStep ==
    /\ pc = "unpacking"
    /\ LoopTurn(Resume(stream, position, alloc_ok, gen))

NextDecode ==
    \/ CallEntries
    \/ CallUnpack
    \/ IterNext
    \/ EntryUnpackIn
    \/ IterDrop
    \/ UnpackStep

SpecDecode == InitDecode /\ [][NextDecode]_vars

(***************************************************************************)
(* write_padded alone: a caller frames byte strings into a Vec<u8>.        *)
(***************************************************************************)
Payloads == {Repeat(v, n) : v \in {0, 120, 255}, n \in 0..MaxPayload}

DefaultParams == [canonicalize_mtime |-> TRUE, remove_xattrs |-> TRUE]

InitPad ==
    /\ input = << >>
    /\ stream = << >>
    /\ dst = << >>
    /\ params = DefaultParams
    /\ alloc_ok = TRUE
    /\ pc = "idle"
    /\ InitCommon

\* write_padded(&mut writer, b)
WritePadded ==
    /\ calls.n < MaxCalls
    /\ \E b \in Payloads :
          /\ input' = b
          /\ writer' = writer \o write_padded(b)
    /\ calls' = [calls EXCEPT !.n = @ + 1]
    /\ last' = Last("write_padded", "", FALSE, << >>)
    /\ UNCHANGED <<fs, fs0, first, stream, position, params, alloc_ok, gen, pc, dst,
                   yielded>>

NextPad == WritePadded

SpecPad == InitPad /\ [][NextPad]_vars

(***************************************************************************)
(* The round trip of examples/round_trip.rs: a source tree on disk is      *)
(* encoded with to_vec, the bytes are decoded and unpacked into dst, and   *)
(* dst is encoded again.  File names on disk are any byte strings without  *)
(* "/" and NUL, other than "." and "..".                                   *)
(***************************************************************************)
NameS == <<115>>
NameEAcute == <<195, 169>>
NameC0 == <<192>>

RawNames == {NameA, NameB, NameTilde, NameEAcute, NameC0, NameNotUtf8}

SourceTrees ==
    WFiles \cup {WLink(TargetOutside), WLink(TargetT), WLink(NameNotUtf8), WDir(<< >>),
                 NestedTree}
    \cup {WDir(<<WEntry(n, l)>>) : n \in RawNames,
                                   l \in {FileX, WFile(TRUE, << >>), WLink(TargetT)}}
    \cup {WDir(<<WEntry(p[1], FileX), WEntry(p[2], WFile(FALSE, << >>))>>) :
             p \in {q \in RawNames \X RawNames : q[1] # q[2]}}

RoundTripDsts == {DstD, <<47, 111, 47, 100>>}

RoundTripScenarios ==
    {Scenario(t, NoMut, d, c, TRUE) : t \in SourceTrees, d \in RoundTripDsts, c \in BOOLEAN}

NodeOf(t) ==
    IF t.type = "directory" THEN DirNode
    ELSE IF t.type = "regular" THEN FileNode(t.executable, t.data)
    ELSE SymlinkNode(t.target)

\* The file system f with tree t put at resolved path q.
RECURSIVE InstallInto(_, _, _)
RECURSIVE EntriesInto(_, _, _, _)
InstallInto(f, t, q) == EntriesInto(f @@ (q :> NodeOf(t)), t.entries, 1, q)

EntriesInto(f, es, i, q) ==
    IF i > Len(es) THEN f
    ELSE EntriesInto(InstallInto(f, es[i].node, Append(q, es[i].name)), es, i + 1, q)

InitRoundTrip ==
    /\ input \in RoundTripScenarios
    /\ fs = InstallInto(InitFs, input.tree, Append(Cwd, NameS))
    /\ fs0 = fs
    /\ stream = << >>
    /\ dst = input.dst
    /\ params = [canonicalize_mtime |-> input.canonicalize, remove_xattrs |-> TRUE]
    /\ alloc_ok = TRUE
    /\ pc = "source"
    /\ writer = << >>
    /\ first = << >>
    /\ position = 0
    /\ gen = NoGen
    /\ yielded = << >>
    /\ calls = [n |-> 0, ok |-> 0]
    /\ last = Last("init", "", FALSE, << >>)

\* e is the result of to_vec on the source tree; the Archive is built over
\* the bytes.
Encoded(e) ==
    /\ writer' = e.out
    /\ first' = e.out
    /\ stream' = e.out
    /\ pc' = "idle"
    /\ last' = Last("encode", e.err, FALSE, << >>)
    /\ UNCHANGED <<input, fs, fs0, position, params, alloc_ok, gen, dst, yielded, calls>>

Encode ==
    /\ pc = "source"
    /\ Encoded(to_writer(fs, NameS))

\* e is the result of to_vec on the unpacked directory.
ReEncoded(e) ==
    /\ writer' = e.out
    /\ pc' = "reencoded"
    /\ last' = Last("reencode", e.err, FALSE, << >>)
    /\ UNCHANGED <<input, fs, fs0, first, stream, position, params, alloc_ok, gen, dst,
                   yielded, calls>>

ReEncode ==
    /\ pc = "idle"
    /\ last.op = "unpack"
    /\ last.err = ""
    /\ ReEncoded(to_writer(fs, dst))

NextRoundTrip ==
    \/ Encode
    \/ CallEntries
    \/ CallUnpack
    \/ IterNext
    \/ EntryUnpackIn
    \/ IterDrop
    \/ UnpackStep
    \/ ReEncode

SpecRoundTrip == InitRoundTrip /\ [][NextRoundTrip]_vars

(***************************************************************************)
(* Properties.                                                             *)
(***************************************************************************)
Suffix(s, n) == SubSeq(s, n + 1, Len(s))

LastItem == yielded[Len(yielded)]

SameNode(a, b) ==
    a.kind = b.kind /\ a.executable = b.executable /\ a.data = b.data /\ a.target = b.target

\* The node at resolved path p was created, removed or rewritten since the
\* first operation (timestamps aside).
Changed(p) ==
    IF p \in DOMAIN fs /\ p \in DOMAIN fs0 THEN ~SameNode(fs[p], fs0[p]) ELSE TRUE

\* Where dst is, in the file system the run started from.
DstRoot == Resolve(fs0, dst, FALSE).path

\* C1: when unpack(dst) has returned Ok(()), every file system node that was
\* created, removed or modified lies at dst or beneath it.
C1_MutatesOnlyBeneathDst ==
    (pc = "idle" /\ last.op = "unpack" /\ last.err = "")
        => \A p \in DOMAIN fs \cup DOMAIN fs0 : Changed(p) => IsPrefix(DstRoot, p)

KindOf(t) ==
    IF t.type = "directory" THEN "Directory"
    ELSE IF t.type = "regular" THEN "Regular"
    ELSE "Symlink"

\* The entries of tree t: path, kind, executable bit, contents, target.
RECURSIVE TreeEntries(_, _)
TreeEntries(t, path) ==
    {EntryItem(path, KindOf(t), t.executable, t.data, t.target)}
    \cup UNION {TreeEntries(t.entries[i].node, PathJoin(path, t.entries[i].name)) :
                   i \in 1..Len(t.entries)}

\* C2: when the entries of to_vec's output for the tree T have been iterated
\* to the end, the items returned are exactly the nodes of T, each with T's
\* name bytes, contents, executable bit and target bytes, and no error.
C2_DecodeOfEncodeIsTree ==
    (pc = "iter" /\ gen.k = "done")
        => {yielded[i] : i \in 1..Len(yielded)} = TreeEntries(input.tree, << >>)

\* C3: unpacking the encoder's stream into a fresh directory, relative or
\* absolute, returns Ok(()), and encoding that directory again gives the
\* first stream byte for byte.
C3_RoundTripByteForByte ==
    /\ (pc = "idle" /\ last.op = "unpack" /\ calls.n = 1) => last.err = ""
    /\ pc = "reencoded" => (last.err = "" /\ writer = first)

\* The path has a root-directory or a parent-directory component.
HasRejectedComponent(p) ==
    IsAbsolute(p) \/ \E i \in 1..Len(Split(p)) : Split(p)[i] = NameDotDot

\* C4: a call of unpack_in whose joined path has a "..", root or prefix
\* component returns InvalidPathComponent and leaves the file system as it
\* was.
C4_InvalidPathComponent ==
    [][(last'.did /\ HasRejectedComponent(last'.path))
          => (last'.err = "InvalidPathComponent" /\ fs' = fs)]_vars

C4_Witness ==
    /\ last.did
    /\ last.err = "InvalidPathComponent"
    /\ HasRejectedComponent(last.path)
    /\ ~IsAbsolute(last.path)
    /\ last.path # dst
    /\ fs = fs0

\* C5: when a padding slot of the stream holds a non-zero byte, the decoding
\* ends with BadPadding: entries() or unpack() returns it, or the iterator
\* yields it as its last item.
C5_BadPaddingOnly ==
    PadDamaged(ArchiveFrames(input.tree), input.mut)
        => /\ (pc = "idle" /\ calls.n = 1 /\ last.op \in {"entries", "unpack"})
                 => last.err = "BadPadding"
           /\ (pc = "iter" /\ gen.k \in {"failed", "done"})
                 => (yielded # << >> /\ LastItem.tag = "Err" /\ LastItem.err = "BadPadding")

\* The decoder accepted the stream: the iteration ended without an error,
\* or unpack returned Ok(()).
Accepted ==
    \/ pc = "iter" /\ gen.k = "done" /\ \A i \in 1..Len(yielded) : yielded[i].tag = "Entry"
    \/ pc = "idle" /\ last.op = "unpack" /\ last.err = ""

\* C6: a stream is accepted only when nothing follows the root node: the
\* reader is at the end of the stream.
C6_NothingAfterRoot == Accepted => position = Len(stream)

IsBadName(n) == n \in {<< >>, NameDot, NameDotDot, NameTilde} \/ Contains(n, Slash)

BadNameItem(n) ==
    IF n \in {<< >>, NameDot, NameDotDot, NameTilde}
    THEN ErrItem("InvalidDirEntryName", n)
    ELSE ErrItem("InvalidDirEntryChar", <<Slash>>)

Walk2(items, stop) == [items |-> items, stop |-> stop]

Cat(items, r) == Walk2(items \o r.items, r.stop)

\* The items a decoding of tree t returns up to the first entry with a bad
\* name, where it stops with that name's error.
RECURSIVE ItemsOfNode(_, _)
RECURSIVE ItemsOfEntries(_, _, _)
ThenEntries(r, es, i, path) ==
    IF r.stop THEN r ELSE Cat(r.items, ItemsOfEntries(es, i + 1, path))

ItemsOfEntries(es, i, path) ==
    IF i > Len(es) THEN Walk2(<< >>, FALSE)
    ELSE IF IsBadName(es[i].name) THEN Walk2(<<BadNameItem(es[i].name)>>, TRUE)
    ELSE ThenEntries(ItemsOfNode(es[i].node, PathJoin(path, es[i].name)), es, i, path)

ItemsOfNode(t, path) ==
    Cat(<<EntryItem(path, KindOf(t), t.executable, t.data, t.target)>>,
        ItemsOfEntries(t.entries, 1, path))

\* Every name of t that is not a bad name, and every target, is UTF-8.
RECURSIVE Utf8Elsewhere(_)
Utf8Elsewhere(t) ==
    /\ from_utf8_ok(t.target)
    /\ \A i \in 1..Len(t.entries) :
          /\ IsBadName(t.entries[i].name) \/ from_utf8_ok(t.entries[i].name)
          /\ Utf8Elsewhere(t.entries[i].node)

\* C7: when a directory entry of the stream has the name "", ".", "..", "~"
\* or a name containing "/", the decoding ends at that entry with
\* InvalidDirEntryName or InvalidDirEntryChar('/'): the items returned are
\* the entries before it and then that error.
C7_BadNameRejected ==
    (/\ input.mut.kind = "none"
     /\ ItemsOfNode(input.tree, << >>).stop
     /\ Utf8Elsewhere(input.tree)
     /\ gen.k \in {"failed", "done"})
        => yielded = ItemsOfNode(input.tree, << >>).items

\* The payloads of the frames of byte string s from position pos on.
RECURSIVE WireTokens(_, _)
TokenAt(s, pos, n) ==
    <<SubSeq(s, pos + 9, pos + 8 + n)>> \o WireTokens(s, pos + 8 + n + ((8 - (n % 8)) % 8))

WireTokens(s, pos) ==
    IF pos + 8 > Len(s) THEN << >>
    ELSE TokenAt(s, pos, s[pos + 1] + 256 * s[pos + 2] + 65536 * s[pos + 3])

Span(ok, next) == [ok |-> ok, next |-> next]

AndOk(ok, r) == Span(ok /\ r.ok, r.next)

\* The node that starts at token i: where it ends, and whether the names in
\* each of its directories are strictly increasing.
RECURSIVE NodeEnd(_, _)
RECURSIVE EntriesEnd(_, _, _)
AfterChild(tok, prev, n, r) ==
    AndOk(r.ok /\ (prev.some => LexLess(prev.name, n)),
          EntriesEnd(tok, r.next + 1, [some |-> TRUE, name |-> n]))

EntriesEnd(tok, j, prev) ==
    IF tok[j] = TagClose THEN Span(TRUE, j + 1)
    ELSE AfterChild(tok, prev, tok[j + 3], NodeEnd(tok, j + 5))

NodeEnd(tok, i) ==
    IF tok[i + 2] = TagDirectory
    THEN EntriesEnd(tok, i + 3, [some |-> FALSE, name |-> << >>])
    ELSE IF tok[i + 2] = TagRegular /\ tok[i + 3] = TagExecutable THEN Span(TRUE, i + 8)
    ELSE Span(TRUE, i + 6)

\* C8: in the stream to_vec wrote, the names of the entries of every
\* directory are strictly increasing in byte order.
C8_SiblingsStrictlyIncreasing ==
    first # << >> => NodeEnd(WireTokens(first, 0), 2).ok

\* out is the frame of b: the little-endian length, b, and the zero bytes up
\* to the next multiple of 8, none when the length is one.
IsFrameOf(out, b) ==
    /\ Len(out) = 8 + Len(b) + ((8 - (Len(b) % 8)) % 8)
    /\ \A i \in 1..3 : out[i] \in 0..255
    /\ out[1] + 256 * out[2] + 65536 * out[3] = Len(b)
    /\ \A i \in 4..8 : out[i] = 0
    /\ SubSeq(out, 9, 8 + Len(b)) = b
    /\ \A i \in (9 + Len(b))..Len(out) : out[i] = 0
    /\ (Len(out) - 8) % 8 = 0
    /\ Len(b) % 8 = 0 => Len(out) = 8 + Len(b)

\* C9: write_padded appends to the writer exactly the 8-byte little-endian
\* length of b, b, and (8 - len mod 8) mod 8 zero bytes; no padding when len
\* is a multiple of 8.
C9_WritePaddedExact ==
    [][last'.op = "write_padded"
          => (IsPrefix(writer, writer') /\ IsFrameOf(Suffix(writer', Len(writer)), input'))]_vars

C9_Witness ==
    /\ last.op = "write_padded"
    /\ calls.n = 2
    /\ Len(input) = 16
    /\ Len(writer) = 8 + 24

\* C10: a call of entries() or unpack() made when the reader has advanced
\* returns GetEntriesAfterRead and reads nothing; at most one call ever gives
\* an iterator.
C10_GetEntriesAfterRead ==
    [][/\ calls'.ok <= 1
       /\ (calls'.n = calls.n + 1 /\ last'.op \in {"entries", "unpack"} /\ position > 0)
             => /\ last'.err = "GetEntriesAfterRead"
                /\ position' = position
                /\ calls'.ok = calls.ok
                /\ pc' = "idle"]_vars

C10_Witness ==
    /\ calls.n = 2
    /\ calls.ok = 1
    /\ last.op = "unpack"
    /\ last.err = "GetEntriesAfterRead"
    /\ position < Len(stream)

\* The names joined with "/": the path of the node they lead to.
RECURSIVE JoinNames(_)
JoinNames(names) ==
    IF names = << >> THEN << >>
    ELSE IF Len(names) = 1 THEN names[1]
    ELSE names[1] \o <<Slash>> \o JoinNames(Tail(names))

\* The nodes of tree t in pre-order, siblings in the order of the stream,
\* as the entries the iterator is to return; names leads to t.
RECURSIVE PreOrder(_, _)
RECURSIVE PreOrderEntries(_, _, _)
PreOrderEntries(es, i, names) ==
    IF i > Len(es) THEN << >>
    ELSE PreOrder(es[i].node, Append(names, es[i].name)) \o PreOrderEntries(es, i + 1, names)

PreOrder(t, names) ==
    <<EntryItem(JoinNames(names), KindOf(t), t.executable, t.data, t.target)>>
    \o PreOrderEntries(t.entries, 1, names)

\* Every name of t passes the decoder's validation, and every name and
\* target is UTF-8 text.
RECURSIVE WellFormedTree(_)
WellFormedTree(t) ==
    /\ from_utf8_ok(t.target)
    /\ \A i \in 1..Len(t.entries) :
          /\ ~IsBadName(t.entries[i].name)
          /\ from_utf8_ok(t.entries[i].name)
          /\ WellFormedTree(t.entries[i].node)

WellFormedStream == input.mut.kind = "none" /\ WellFormedTree(input.tree)

C12_ErrIsLast ==
    [][last'.op = "next"
          => /\ \A i \in 1..(Len(yielded') - 1) : yielded'[i].tag = "Entry"
             /\ last'.err # "" => (yielded' # yielded
                                   /\ yielded'[Len(yielded')].tag = "Err"
                                   /\ yielded'[Len(yielded')].err = last'.err
                                   /\ gen'.k = "failed")
             /\ gen.k = "failed" => (yielded' = yielded /\ gen'.k = "done")]_vars

C12_Witness ==
    /\ pc = "iter"
    /\ last.op = "next"
    /\ gen.k = "done"
    /\ Len(yielded) >= 2
    /\ LastItem.tag = "Err"
    /\ LastItem.err = "MissingTag"

\* C13: no call of the decoder panics or aborts the process, whatever the
\* bytes of the stream.
C13_NeverPanics == pc # "crashed"

(***************************************************************************)
(* write_padded_from_reader alone: the caller passes the length it took    *)
(* from the metadata and a reader over the file, which by then may hold    *)
(* fewer or more bytes.  Writes to a Vec<u8> do not fail, so the call      *)
(* returns Ok(()).                                                         *)
(***************************************************************************)
Lengths(content) ==
    {n \in 0..MaxPayload : n + 1 >= Len(content) /\ n <= Len(content) + 1}

InitCopy == InitPad

WritePaddedFromReader ==
    /\ calls.n < MaxCalls
    /\ \E content \in Payloads :
          \E len \in Lengths(content) :
             /\ input' = [content |-> content, len |-> len]
             /\ writer' = writer \o write_padded_from_reader(content, len)
    /\ calls' = [calls EXCEPT !.n = @ + 1]
    /\ last' = Last("write_padded_from_reader", "", FALSE, << >>)
    /\ UNCHANGED <<fs, fs0, first, stream, position, params, alloc_ok, gen, pc, dst,
                   yielded>>

NextCopy == WritePaddedFromReader

SpecCopy == InitCopy /\ [][NextCopy]_vars

\* The bytes of out after its 8-byte prefix are as many as the prefix says,
\* padded to the next multiple of 8.
PrefixAgrees(out) ==
    /\ Len(out) >= 8
    /\ Len(out) = 8 + (out[1] + 256 * out[2] + 65536 * out[3])
                    + ((8 - ((out[1] + 256 * out[2] + 65536 * out[3]) % 8)) % 8)

\* C14: when the reader gives fewer or more bytes than len,
\* write_padded_from_reader returns an error; what it has written when it
\* returns Ok(()) is a frame whose payload and padding agree with the prefix.
C14_LengthAuthoritative ==
    (last.op = "write_padded_from_reader" /\ calls.n = 1)
        => /\ Len(input.content) # input.len => last.err # ""
           /\ last.err = "" => PrefixAgrees(writer)

\* The node at r exists in f and its modification time is the epoch.
EpochAt(f, r) == Exists(r) /\ f[r.path].mtime = 0

\* The parent directory of path has the modification time 0 in f.
ParentCanonical(f, path) ==
    Parent(path).some /\ EpochAt(f, Resolve(f, Parent(path).path, FALSE))

\* C15: when the parent directory's modification time is 0 before a call of
\* unpack_in that returns Ok(()), it is 0 after the call, whether the entry
\* is canonicalized or not.
C15_ParentStaysCanonical ==
    [][(last'.did /\ last'.err = "" /\ ParentCanonical(fs, last'.path))
          => ParentCanonical(fs', last'.path)]_vars

\* The path has a parent other than the working directory, and in f it does
\* not lead to a directory.
ParentMissing(f, path) ==
    /\ Parent(path).some
    /\ Parent(path).path # << >>
    /\ ~stat_is_dir(f, Parent(path).path)

\* C16: a call of unpack_in creates nodes only in directories that are there
\* before the call, never a parent: a call on an entry whose parent
\* directory does not exist returns IoAt with the entry's path and leaves
\* the file system as it was, so that in an unpack that goes on every
\* directory was written before its children.
C16_NoIntermediateParents ==
    [][last'.did
          => /\ \A q \in DOMAIN fs' \ DOMAIN fs :
                   Front(q) \in DOMAIN fs /\ fs[Front(q)].kind = "dir"
             /\ (~HasRejectedComponent(last'.path) /\ ParentMissing(fs, last'.path))
                   => /\ last'.err = "IoAt"
                      /\ last'.path = UnpackPath(yielded'[Len(yielded')].name, dst)
                      /\ fs' = fs]_vars

C16_Witness ==
    /\ pc = "iter"
    /\ last.did
    /\ last.err = "IoAt"
    /\ ParentMissing(fs, last.path)
    /\ LastItem.kind = "Directory"
    /\ fs = fs0

====
